---- MODULE Spec2Model ----
\* girdle: the word store (read_words, Dictionary::new) and the constraint
\* engine (Dictionary) of src/src/dictionary/dictionary.rs.
\*
\* A Rust `char` is a string naming it: "c" is U+0063, "E_ACUTE" is U+00E9,
\* "I_DOT" is U+0130, "COMB_DOT" is U+0307, "KELVIN" is U+212A.  A Rust
\* String is the sequence of its chars; String::len() is its UTF-8 length.
EXTENDS Integers, Sequences, FiniteSets, TLC

\* fs         the files at the candidate paths of DICTIONARIES (main.rs:13-16)
\* pc         "start" before Dictionary::new, then "ready" (Ok), "failed" (Err)
\*            or "panicked" (a panic ended the process)
\* err        the Error of a failed Dictionary::new, or the message of the panic
\* words, include, exclude, positions, matches
\*            the fields of Dictionary (dictionary.rs:16-23)
\* ret        what the last call returned, when it was matches(),
\*            excluded_chars() or included_chars()
\* op, hist   the last call, and in the scripted specification every call so far
VARIABLES fs, pc, err, words, include, exclude, positions, matches, ret, op, hist

vars == <<fs, pc, err, words, include, exclude, positions, matches, ret, op, hist>>

\* ---------------------------------------------------------------- bounds

\* The engine's word file is the first NumLines lines of MixedLines.
NumLines == 6
\* A modelled word file holds at most MaxLines lines.
MaxLines == 2
\* The scripted specification records at most MaxHist calls.
MaxHist == 3

\* ------------------------------------------------------------- constants

\* positions: RefCell<[char; 5]>
NPOS == 5
\* read_words: line.len() == 5
WORD_LEN == 5
\* '.' is the wildcard of the position array
WILDCARD == "."

\* Option<T>
None == [some |-> FALSE, v |-> <<>>]
Some(x) == [some |-> TRUE, v |-> x]

\* ------------------------------------------------------ chars and strings

\* char::len_utf8 of the modelled chars
len_utf8(ch) ==
    CASE ch = "E_ACUTE"  -> 2
      [] ch = "I_DOT"    -> 2
      [] ch = "COMB_DOT" -> 2
      [] ch = "KELVIN"   -> 3
      [] OTHER           -> 1

\* char::to_lowercase of the modelled chars (one char may become two)
char_to_lowercase(ch) ==
    CASE ch = "C"      -> <<"c">>
      [] ch = "P"      -> <<"p">>
      [] ch = "I_DOT"  -> <<"i", "COMB_DOT">>
      [] ch = "KELVIN" -> <<"k">>
      [] OTHER         -> <<ch>>

RECURSIVE str_len(_)
\* str::len: the length in bytes
str_len(s) ==
    IF s = <<>> THEN 0 ELSE len_utf8(Head(s)) + str_len(Tail(s))

RECURSIVE to_lowercase(_)
\* str::to_lowercase
to_lowercase(s) ==
    IF s = <<>> THEN <<>> ELSE char_to_lowercase(Head(s)) \o to_lowercase(Tail(s))

\* The code point of the modelled chars: the order of char
code_point(ch) ==
    CASE ch = "."        -> 46
      [] ch = "C"        -> 67
      [] ch = "P"        -> 80
      [] ch = "a"        -> 97
      [] ch = "c"        -> 99
      [] ch = "e"        -> 101
      [] ch = "g"        -> 103
      [] ch = "i"        -> 105
      [] ch = "k"        -> 107
      [] ch = "l"        -> 108
      [] ch = "n"        -> 110
      [] ch = "p"        -> 112
      [] ch = "r"        -> 114
      [] ch = "s"        -> 115
      [] ch = "t"        -> 116
      [] ch = "E_ACUTE"  -> 233
      [] ch = "I_DOT"    -> 304
      [] ch = "COMB_DOT" -> 775
      [] ch = "KELVIN"   -> 8490

RECURSIVE sort_descending(_)
\* the chars of a set collected into a Vec and sorted the wrong way round
sort_descending(set) ==
    IF set = {} THEN <<>>
    ELSE LET hi == CHOOSE x \in set : \A y \in set : code_point(y) <= code_point(x)
         IN  <<hi>> \o sort_descending(set \ {hi})

RECURSIVE sort(_)
\* set.iter().collect::<Vec<_>>() and vec.sort(): the chars of a set, ascending
sort(set) ==
    IF set = {} THEN <<>>
    ELSE LET lo == CHOOSE x \in set : \A y \in set : code_point(x) <= code_point(y)
         IN  <<lo>> \o sort(set \ {lo})

\* str::contains(char)
contains(s, ch) == \E k \in 1..Len(s) : s[k] = ch

\* ------------------------------------------------------------ word store

\* A candidate location: absent, present but unreadable, or a file of lines.
Absent == [kind |-> "absent", lines |-> <<>>]
Unreadable == [kind |-> "unreadable", lines |-> <<>>]
File(ls) == [kind |-> "file", lines |-> ls]

\* DICTIONARIES, as indices into fs
DICTIONARIES == <<1, 2>>

RECURSIVE find_from_readable(_, _, _)
\* find_dictionary passing over a path that exists but cannot be opened
find_from_readable(dictionaries, k, f) ==
    IF k > Len(dictionaries) THEN 0
    ELSE IF f[dictionaries[k]].kind = "file" THEN dictionaries[k]
    ELSE find_from_readable(dictionaries, k + 1, f)

RECURSIVE find_from(_, _, _)
\* The loop of find_dictionary from the k-th path on
find_from(dictionaries, k, f) ==
    IF k > Len(dictionaries) THEN 0
    ELSE IF f[dictionaries[k]].kind # "absent" THEN dictionaries[k]
    ELSE find_from(dictionaries, k + 1, f)

\* find_dictionary: the first path fs::metadata succeeds on, 0 for Err
find_dictionary(dictionaries, f) == find_from(dictionaries, 1, f)

\* A line the reader fails on (reader.lines() yields Err, as for bytes that are
\* not UTF-8)
BadLine == <<"INVALID">>

\* The loop of read_words passing over a line that cannot be read
read_lines_skip(ls) ==
    LET kept == SelectSeq(ls, LAMBDA line : line # BadLine /\ str_len(line) = WORD_LEN)
    IN  [ok |-> TRUE, v |-> [k \in 1..Len(kept) |-> to_lowercase(kept[k])]]

\* The loop of read_words: Err when a line cannot be read, else the lines of
\* five bytes, lowercased
read_lines(ls) ==
    IF \E k \in 1..Len(ls) : ls[k] = BadLine THEN [ok |-> FALSE, v |-> <<>>]
    ELSE LET kept == SelectSeq(ls, LAMBDA line : str_len(line) = WORD_LEN)
         IN  [ok |-> TRUE, v |-> [k \in 1..Len(kept) |-> to_lowercase(kept[k])]]

\* read_words: Err(io) when the file cannot be opened or read, else the kept lines
read_words(entry) ==
    IF entry.kind = "file" THEN read_lines(entry.lines)
    ELSE [ok |-> FALSE, v |-> <<>>]

NoError == [msg |-> "", source |-> FALSE]
\* Error::new(msg)
Error_new(msg) == [msg |-> msg, source |-> FALSE]
\* From<io::Error> for Error
Error_from_io == [msg |-> "IO Error", source |-> TRUE]

\* panic!(msg), and the panic of indexing a [char; 5] out of bounds
Panic(msg) == [msg |-> msg, source |-> FALSE]
InvalidPosition == Panic("pos must be between 1 and 5.")
OutOfBounds == Panic("index out of bounds")

\* ---------------------------------------------------------------- engine

SetTypes == {"Excluded", "Included"}

AllWild == [k \in 1..NPOS |-> WILDCARD]

\* match_excluded
match_excluded(s, excl) == \E ch \in excl : contains(s, ch)

\* match_included returning at the first letter found instead of the first missing
match_included_any(s, incl) == incl = {} \/ \E ch \in incl : contains(s, ch)

\* match_included
match_included(s, incl) == \A ch \in incl : contains(s, ch)

RECURSIVE match_positions_shift(_, _, _, _)
\* match_positions reading the slot after the char's own
match_positions_shift(s, k, i, pos) ==
    IF k > Len(s) THEN "true"
    ELSE IF i + 1 >= NPOS THEN "panic"
    ELSE IF pos[i + 2] = s[k] THEN match_positions_shift(s, k + 1, i + len_utf8(s[k]), pos)
    ELSE IF pos[i + 2] = WILDCARD THEN match_positions_shift(s, k + 1, i + len_utf8(s[k]), pos)
    ELSE "false"

RECURSIVE match_positions_from(_, _, _, _)
\* The loop of match_positions over s.char_indices(): the k-th char of s starts
\* at byte i
match_positions_from(s, k, i, pos) ==
    IF k > Len(s) THEN "true"
    ELSE IF i >= NPOS THEN "panic"
    ELSE IF pos[i + 1] = s[k] THEN match_positions_from(s, k + 1, i + len_utf8(s[k]), pos)
    ELSE IF pos[i + 1] = WILDCARD THEN match_positions_from(s, k + 1, i + len_utf8(s[k]), pos)
    ELSE "false"

\* match_positions: "true", "false", or "panic" (positions[i] out of bounds)
match_positions(s, pos) == match_positions_from(s, 1, 0, pos)

\* The closure of filter_matches: "keep", "drop" or "panic"
filter_closure(s, excl, incl, pos) ==
    IF match_excluded(s, excl) THEN "drop"
    ELSE IF ~match_included(s, incl) THEN "drop"
    ELSE LET r == match_positions(s, pos)
         IN  IF r = "true" THEN "keep" ELSE IF r = "false" THEN "drop" ELSE "panic"

\* filter_matches skipping the first word of the pool
filter_matches_skip(pool, excl, incl, pos) ==
    IF \E k \in 2..Len(pool) : filter_closure(pool[k], excl, incl, pos) = "panic"
    THEN [panic |-> TRUE, v |-> <<>>]
    ELSE [panic |-> FALSE,
          v |-> SelectSeq(IF pool = <<>> THEN pool ELSE Tail(pool),
                          LAMBDA s : filter_closure(s, excl, incl, pos) = "keep")]

\* filter_matches collecting the kept words last to first
filter_matches_rev(pool, excl, incl, pos) ==
    IF \E k \in 1..Len(pool) : filter_closure(pool[k], excl, incl, pos) = "panic"
    THEN [panic |-> TRUE, v |-> <<>>]
    ELSE LET kept == SelectSeq(pool, LAMBDA s : filter_closure(s, excl, incl, pos) = "keep")
         IN  [panic |-> FALSE, v |-> [k \in 1..Len(kept) |-> kept[Len(kept) + 1 - k]]]

\* filter_matches: the kept words in order, or a panic at the first word whose
\* position check indexes past the array
filter_matches(pool, excl, incl, pos) ==
    IF \E k \in 1..Len(pool) : filter_closure(pool[k], excl, incl, pos) = "panic"
    THEN [panic |-> TRUE, v |-> <<>>]
    ELSE [panic |-> FALSE,
          v |-> SelectSeq(pool, LAMBDA s : filter_closure(s, excl, incl, pos) = "keep")]

\* what Dictionary::matches computes in a given engine state
matches_value(ws, m, excl, incl, pos) ==
    IF m.some THEN filter_matches(m.v, excl, incl, pos)
    ELSE filter_matches(ws, excl, incl, pos)

\* ------------------------------------------------------- calls and state

\* The last call: its name and arguments, and what it found when it was made:
\* was = the sets that held ch, old = the letter in slot pos, fresh = the cache
\* was None, again = this is matches() called right after matches().
NoOp == [name |-> "none", st |-> "-", ch |-> "-", pos |-> 0,
         was |-> {}, old |-> "-", fresh |-> FALSE, again |-> FALSE]
Call(name, st, ch, pos) ==
    [name |-> name, st |-> st, ch |-> ch, pos |-> pos,
     was |-> {t \in {"Excluded"} : ch \in exclude} \cup {t \in {"Included"} : ch \in include},
     old |-> IF pos \in 1..NPOS THEN positions[pos] ELSE "-",
     fresh |-> ~matches.some,
     again |-> name = "matches" /\ op.name = "matches"]

\* every call records itself; the scripted specification keeps the whole list
Log(call) ==
    /\ op' = call
    /\ hist' = IF hist.on THEN [hist EXCEPT !.calls = Append(@, call)] ELSE hist

\* the engine exists, and the script (when one is kept) has room
Ready == pc = "ready" /\ (hist.on => Len(hist.calls) < MaxHist)

\* Dictionary::new
Dictionary_new ==
    /\ pc = "start"
    /\ LET database == find_dictionary(DICTIONARIES, fs)
       IN  IF database = 0
           THEN /\ pc' = "failed"
                /\ err' = Error_new("Unable to find a word database.")
                /\ words' = <<>>
           ELSE LET r == read_words(fs[database])
                IN  IF r.ok
                    THEN pc' = "ready" /\ err' = NoError /\ words' = r.v
                    ELSE pc' = "failed" /\ err' = Error_from_io /\ words' = <<>>
    /\ include' = {} /\ exclude' = {}
    /\ positions' = AllWild
    /\ matches' = None
    /\ ret' = None
    /\ op' = Call("new", "-", "-", 0)
    /\ UNCHANGED <<fs, hist>>

\* Dictionary::reset
reset ==
    /\ Ready
    /\ include' = {}
    /\ exclude' = {}
    /\ positions' = AllWild
    /\ matches' = None
    /\ ret' = None
    /\ Log(Call("reset", "-", "-", 0))
    /\ UNCHANGED <<fs, pc, err, words>>

\* exclude_char leaving the letter in the include set
exclude_char_keep(ch) ==
    /\ exclude' = exclude \cup {ch}
    /\ UNCHANGED include

\* exclude_char
exclude_char(ch) ==
    /\ include' = include \ {ch}
    /\ exclude' = exclude \cup {ch}

\* include_char replacing the include set by the letter
include_char_only(ch) ==
    /\ exclude' = exclude \ {ch}
    /\ include' = {ch}

\* include_char
include_char(ch) ==
    /\ exclude' = exclude \ {ch}
    /\ include' = include \cup {ch}

\* Dictionary::add_char
add_char(set_type, ch) ==
    /\ Ready
    /\ IF set_type = "Excluded" THEN exclude_char(ch) ELSE include_char(ch)
    /\ ret' = None
    /\ Log(Call("add_char", set_type, ch, 0))
    /\ UNCHANGED <<fs, pc, err, words, positions, matches>>

\* remove_excluded_char dropping the cache only when the set held the letter
remove_excluded_char_if(ch) ==
    /\ exclude' = exclude \ {ch}
    /\ matches' = IF ch \in exclude THEN None ELSE matches
    /\ UNCHANGED include

\* remove_excluded_char
remove_excluded_char(ch) ==
    /\ exclude' = exclude \ {ch}
    /\ matches' = None
    /\ UNCHANGED include

\* remove_included_char
remove_included_char(ch) ==
    /\ include' = include \ {ch}
    /\ matches' = None
    /\ UNCHANGED exclude

\* Dictionary::remove_char
remove_char(set_type, ch) ==
    /\ Ready
    /\ IF set_type = "Excluded" THEN remove_excluded_char(ch)
                                ELSE remove_included_char(ch)
    /\ ret' = None
    /\ Log(Call("remove_char", set_type, ch, 0))
    /\ UNCHANGED <<fs, pc, err, words, positions>>

\* clear_excluded_chars
clear_excluded_chars == exclude' = {} /\ UNCHANGED include

\* clear_included_chars
clear_included_chars == include' = {} /\ UNCHANGED exclude

\* clear_set dropping the cache as remove_char does
clear_set_invalidate(set_type) ==
    /\ Ready
    /\ IF set_type = "Excluded" THEN clear_excluded_chars ELSE clear_included_chars
    /\ matches' = None
    /\ ret' = None
    /\ Log(Call("clear_set", set_type, "-", 0))
    /\ UNCHANGED <<fs, pc, err, words, positions>>

\* Dictionary::clear_set
clear_set(set_type) ==
    /\ Ready
    /\ IF set_type = "Excluded" THEN clear_excluded_chars ELSE clear_included_chars
    /\ ret' = None
    /\ Log(Call("clear_set", set_type, "-", 0))
    /\ UNCHANGED <<fs, pc, err, words, positions, matches>>

\* Dictionary::excluded_chars
excluded_chars ==
    /\ Ready
    /\ ret' = Some(sort(exclude))
    /\ Log(Call("excluded_chars", "Excluded", "-", 0))
    /\ UNCHANGED <<fs, pc, err, words, include, exclude, positions, matches>>

\* Dictionary::included_chars
included_chars ==
    /\ Ready
    /\ ret' = Some(sort(include))
    /\ Log(Call("included_chars", "Included", "-", 0))
    /\ UNCHANGED <<fs, pc, err, words, include, exclude, positions, matches>>

\* set_char_position checking the range after the sets are updated
set_char_position_late(pos, ch) ==
    IF pos < 1 \/ pos > NPOS
    THEN /\ pc' = "panicked" /\ err' = InvalidPosition
         /\ matches' = IF ch = WILDCARD THEN None ELSE matches
         /\ include' = include \ {ch}
         /\ exclude' = exclude \ {ch}
         /\ UNCHANGED positions
    ELSE /\ matches' = IF ch = WILDCARD THEN None ELSE matches
         /\ include' = include \ {ch}
         /\ exclude' = exclude \ {ch}
         /\ positions' = [positions EXCEPT ![pos] = ch]
         /\ UNCHANGED <<pc, err>>

\* set_char_position removing the letter from the include set only
set_char_position_half(pos, ch) ==
    IF pos < 1 \/ pos > NPOS
    THEN /\ pc' = "panicked" /\ err' = InvalidPosition
         /\ UNCHANGED <<include, exclude, positions, matches>>
    ELSE /\ matches' = IF ch = WILDCARD THEN None ELSE matches
         /\ include' = include \ {ch}
         /\ UNCHANGED exclude
         /\ positions' = [positions EXCEPT ![pos] = ch]
         /\ UNCHANGED <<pc, err>>

\* set_char_position leaving a slot that already holds a letter as it is
set_char_position_keep(pos, ch) ==
    IF pos < 1 \/ pos > NPOS
    THEN /\ pc' = "panicked" /\ err' = InvalidPosition
         /\ UNCHANGED <<include, exclude, positions, matches>>
    ELSE /\ matches' = IF ch = WILDCARD THEN None ELSE matches
         /\ include' = include \ {ch}
         /\ exclude' = exclude \ {ch}
         /\ positions' = IF positions[pos] = WILDCARD \/ ch = WILDCARD
                          THEN [positions EXCEPT ![pos] = ch] ELSE positions
         /\ UNCHANGED <<pc, err>>

\* The body of set_char_position, which unset_char_position calls too
set_char_position_body(pos, ch) ==
    IF pos < 1 \/ pos > NPOS
    THEN /\ pc' = "panicked" /\ err' = InvalidPosition
         /\ UNCHANGED <<include, exclude, positions, matches>>
    ELSE /\ matches' = IF ch = WILDCARD THEN None ELSE matches
         /\ include' = include \ {ch}
         /\ exclude' = exclude \ {ch}
         /\ positions' = [positions EXCEPT ![pos] = ch]
         /\ UNCHANGED <<pc, err>>

\* Dictionary::set_char_position
set_char_position(pos, ch) ==
    /\ Ready
    /\ set_char_position_body(pos, ch)
    /\ ret' = None
    /\ Log(Call("set_char_position", "-", ch, pos))
    /\ UNCHANGED <<fs, words>>

\* Dictionary::unset_char_position
unset_char_position(pos) ==
    /\ Ready
    /\ set_char_position_body(pos, WILDCARD)
    /\ ret' = None
    /\ Log(Call("unset_char_position", "-", "-", pos))
    /\ UNCHANGED <<fs, words>>

\* Dictionary::matches
matches_call ==
    /\ Ready
    /\ LET r == matches_value(words, matches, exclude, include, positions)
       IN  IF r.panic
           THEN /\ pc' = "panicked" /\ err' = OutOfBounds
                /\ UNCHANGED matches /\ ret' = None
           ELSE /\ UNCHANGED <<pc, err>>
                /\ matches' = Some(r.v) /\ ret' = Some(r.v)
    /\ Log(Call("matches", "-", "-", 0))
    /\ UNCHANGED <<fs, words, include, exclude, positions>>

\* ----------------------------------------------------------- word files

crane == <<"c", "r", "a", "n", "e">>
trace == <<"t", "r", "a", "c", "e">>
grape == <<"g", "r", "a", "p", "e">>
plane == <<"p", "l", "a", "n", "e">>
place == <<"p", "l", "a", "c", "e">>

\* The store of the spec's scenarios
ScenarioFile == File(<<crane, trace, grape, plane, place>>)

\* Lines of three, five and seven bytes, a capital and a two-byte char:
\* "Place", "cat", "e'cap", "planets", "crane", "grape", "trace"
MixedLines == <<<<"P", "l", "a", "c", "e">>, <<"c", "a", "t">>,
                <<"E_ACUTE", "c", "a", "p">>,
                <<"p", "l", "a", "n", "e", "t", "s">>, crane, grape, trace>>
MixedFile == File(SubSeq(MixedLines, 1, NumLines))

\* A line of five bytes whose lowercase has six, and a word twice:
\* "I.cap", "place", "Place"
DottedFile == File(<<<<"I_DOT", "c", "a", "p">>, place, <<"P", "l", "a", "c", "e">>>>)

EngineFiles == {MixedFile, DottedFile}

\* The letters and positions the engine is called with
Chars == {"p", "c", WILDCARD}
PosArgs == {0, 1, 4, 6}

\* ------------------------------------------------------- specifications

InitWith(files, scripted) ==
    /\ fs \in files
    /\ pc = "start"
    /\ err = NoError
    /\ words = <<>>
    /\ include = {} /\ exclude = {}
    /\ positions = AllWild
    /\ matches = None
    /\ ret = None
    /\ op = NoOp
    /\ hist = [on |-> scripted, calls |-> <<>>]

\* The engine over the mixed and the dotted store, called in any order.
Init == InitWith({<<f, Absent>> : f \in EngineFiles}, FALSE)

Next ==
    \/ Dictionary_new
    \/ reset
    \/ \E st \in SetTypes, ch \in Chars : add_char(st, ch)
    \/ \E st \in SetTypes, ch \in Chars : remove_char(st, ch)
    \/ \E st \in SetTypes : clear_set(st)
    \/ excluded_chars
    \/ included_chars
    \/ \E p \in PosArgs, ch \in Chars : set_char_position(p, ch)
    \/ \E p \in PosArgs : unset_char_position(p)
    \/ matches_call

Spec == Init /\ [][Next]_vars

\* The engine over the store of the spec's scenarios, the calls recorded.
ScenarioChars == {"p", "e"}
ScenarioPos == {1, 5}

InitScenario == InitWith({<<ScenarioFile, Absent>>}, TRUE)

NextScenario ==
    \/ Dictionary_new
    \/ reset
    \/ \E st \in SetTypes, ch \in ScenarioChars : add_char(st, ch)
    \/ \E st \in SetTypes, ch \in ScenarioChars : remove_char(st, ch)
    \/ \E st \in SetTypes : clear_set(st)
    \/ \E p \in ScenarioPos, ch \in ScenarioChars : set_char_position(p, ch)
    \/ \E p \in ScenarioPos : unset_char_position(p)
    \/ matches_call

SpecScenario == InitScenario /\ [][NextScenario]_vars

\* Dictionary::new over every file system of at most MaxLines lines.
LoadLines == {place, <<"P", "l", "a", "c", "e">>, <<"c", "a", "t">>,
              <<"p", "l", "a", "n", "e", "t", "s">>, <<"E_ACUTE", "c", "a", "p">>,
              <<"I_DOT", "c", "a", "p">>, <<"KELVIN", "a", "p">>, BadLine}

LineSeqs == UNION {[1..n -> LoadLines] : n \in 0..MaxLines}

InitLoad ==
    InitWith({<<a, b>> : a \in {Absent, Unreadable} \cup {File(ls) : ls \in LineSeqs},
                         b \in {Absent, Unreadable, File(<<crane>>)}}, FALSE)

NextLoad == Dictionary_new

SpecLoad == InitLoad /\ [][NextLoad]_vars

\* ------------------------------------------------------------- properties

\* what matches() would return if it were called now
MatchesNow == matches_value(words, matches, exclude, include, positions)

\* the current constraints applied to the whole store
FromScratch == filter_matches(words, exclude, include, positions)

Range(s) == {s[k] : k \in 1..Len(s)}

RECURSIVE IsSubseq(_, _)
\* s is t with some elements left out
IsSubseq(s, t) ==
    IF s = <<>> THEN TRUE
    ELSE IF t = <<>> THEN FALSE
    ELSE IF Head(s) = Head(t) THEN IsSubseq(Tail(s), Tail(t))
    ELSE IsSubseq(s, Tail(t))

\* The three conditions of the spec's filtering algorithm, on a word's letters
Kept(w, excl, incl, pos) ==
    /\ \A c \in excl : \A k \in 1..Len(w) : w[k] # c
    /\ \A c \in incl : \E k \in 1..Len(w) : w[k] = c
    /\ \A i \in 1..NPOS : pos[i] = WILDCARD \/ (i <= Len(w) /\ w[i] = pos[i])

SpecFilter(ws, excl, incl, pos) == SelectSeq(ws, LAMBDA w : Kept(w, excl, incl, pos))

IsUpper(ch) == ch \in {"C", "P", "I_DOT", "KELVIN"}

\* the last call in the scripted specification's terms
IsCall(c, name, st, ch, pos) ==
    c.name = name /\ c.st = st /\ c.ch = ch /\ c.pos = pos

\* the last call only added a constraint: add_char of a letter the other set does
\* not hold, or set_char_position of a letter neither set holds into a slot that
\* is wild or holds that letter already
OnlyAdds(c) ==
    \/ c.name = "add_char" /\ c.was \subseteq {c.st}
    \/ /\ c.name = "set_char_position" /\ c.pos \in 1..NPOS /\ c.ch # WILDCARD
       /\ c.was = {} /\ c.old \in {WILDCARD, c.ch}

\* C1: whenever matches() returns, it returns what filtering the whole word
\* store with the current exclude set, include set and positions gives.
C1_IncrementalEqualsScratch ==
    (op.name = "matches" /\ pc = "ready" /\ ~FromScratch.panic) =>
        ret = Some(FromScratch.v)

\* C2: called with an empty cache, matches() returns the store's words, in
\* order, that hold no excluded letter, hold every included letter, and whose
\* letter at every fixed position is the fixed one.
C2_FreshMatchesIsSpecFilter ==
    (op.name = "matches" /\ op.fresh /\ pc = "ready") =>
        ret = Some(SpecFilter(words, exclude, include, positions))

\* C3: the exclude and include sets are disjoint in every state, and a letter
\* just added to one set is in that set and not in the other.
C3_SetsDisjoint ==
    /\ include \cap exclude = {}
    /\ (op.name = "add_char" /\ op.st = "Excluded") =>
           (op.ch \in exclude /\ op.ch \notin include)
    /\ (op.name = "add_char" /\ op.st = "Included") =>
           (op.ch \in include /\ op.ch \notin exclude)

\* C3 witness: a letter of the include set was added to the exclude set.
C3_Witness ==
    op.name = "add_char" /\ op.st = "Excluded" /\ op.was = {"Included"}

C5_ResetRestores ==
    [][/\ op'.name = "reset" =>
            (include' = {} /\ exclude' = {} /\ positions' = AllWild /\ matches' = None)
       /\ (op.name = "reset" /\ op'.name = "matches") =>
            (pc' = "ready" /\ ret' = Some(words))]_vars

\* C6: matches() called right after matches() returns the same sequence.
C6_MatchesIdempotent ==
    [][(op.name = "matches" /\ op'.name = "matches")
       => (pc' = "ready" /\ ret'.some /\ ret' = ret)]_vars

\* C6 witness: matches() returned right after matches(), with some words kept
\* and some dropped.
C6_Witness ==
    /\ op.name = "matches" /\ op.again /\ pc = "ready"
    /\ ret.some /\ ret.v # <<>> /\ ret.v # words

\* C7: right after set_char_position(p, c) with p in 1..5, c is in neither set.
C7_PositionLetterLeavesSets ==
    (op.name = "set_char_position" /\ op.pos \in 1..NPOS) =>
        (pc = "ready" /\ op.ch \notin exclude /\ op.ch \notin include)

\* C7 witness: a letter was fixed at a position while the exclude set held it.
C7_Witness ==
    /\ op.name = "set_char_position" /\ op.pos \in 1..NPOS
    /\ op.ch # WILDCARD /\ op.was = {"Excluded"}

\* the scenario's calls: a new engine over the scenario store, then
\* set_position(1,'p'), set_position(5,'e'), matches()
C8_Script ==
    /\ words = <<crane, trace, grape, plane, place>>
    /\ Len(hist.calls) = 3
    /\ IsCall(hist.calls[1], "set_char_position", "-", "p", 1)
    /\ IsCall(hist.calls[2], "set_char_position", "-", "e", 5)
    /\ IsCall(hist.calls[3], "matches", "-", "-", 0)

\* C8 as stated: on the scenario store, set_position(1,'p'), set_position(5,'e')
\* and matches() from the initial state return exactly <<place>>.
C8_ScenarioPlace == C8_Script => ret = Some(<<place>>)

\* C8 amended: the same three calls return exactly <<plane, place>>.
C8_ScenarioPlanePlace == C8_Script => (pc = "ready" /\ ret = Some(<<plane, place>>))

\* C8 witness: the three calls were made and matches() returned.
C8_Witness == C8_Script /\ ret.some

\* C9: set_char_position or unset_char_position with a position outside 1..5
\* panics with the invalid-position message and leaves both sets, the positions and the cache as they were.
C9_InvalidPosition ==
    [][(op'.name \in {"set_char_position", "unset_char_position"}
          /\ op'.pos \notin 1..NPOS)
       => (pc' = "panicked" /\ err' = InvalidPosition
           /\ UNCHANGED <<include, exclude, positions, matches, words>>)]_vars

\* C9 witness: position 6 was refused while a set held the letter and the
\* cache was populated.
C9_Witness ==
    /\ pc = "panicked" /\ op.name = "set_char_position" /\ op.pos = 6
    /\ op.was # {} /\ matches.some

\* C10: the loaded store is the file's lines of length 5, lowercased, in order;
\* every stored word has length 5 and no uppercase letter.
C10_LoadKeepsLength5 ==
    pc = "ready" =>
        /\ words = [k \in 1..Len(words) |->
                      to_lowercase(SelectSeq(fs[find_dictionary(DICTIONARIES, fs)].lines,
                                             LAMBDA l : str_len(l) = WORD_LEN)[k])]
        /\ \A k \in 1..Len(words) :
              /\ str_len(words[k]) = WORD_LEN
              /\ \A j \in 1..Len(words[k]) : ~IsUpper(words[k][j])

\* the paths of DICTIONARIES that exist, and those that can be read to the end
Existing == {k \in 1..Len(DICTIONARIES) : fs[DICTIONARIES[k]].kind # "absent"}
Readable == {k \in 1..Len(DICTIONARIES) :
                /\ fs[DICTIONARIES[k]].kind = "file"
                /\ \A j \in 1..Len(fs[DICTIONARIES[k]].lines) :
                       fs[DICTIONARIES[k]].lines[j] # BadLine}
First(S) == CHOOSE k \in S : \A j \in S : k <= j

\* C11 as stated: Dictionary::new takes its words from the first path that
\* exists and is readable.
C11_FirstReadableWins ==
    (op.name = "new" /\ Readable # {}) =>
        (pc = "ready" /\ words = read_words(fs[DICTIONARIES[First(Readable)]]).v)

\* C11 amended: Dictionary::new takes its words from the first path that
\* exists, and from no later one: when that path cannot be read it fails.
C11_FirstExistingWins ==
    (op.name = "new" /\ Existing # {}) =>
        LET r == read_words(fs[DICTIONARIES[First(Existing)]])
        IN  IF r.ok THEN pc = "ready" /\ words = r.v
            ELSE pc = "failed" /\ words = <<>>

\* C11 witness: both paths hold a readable file with different words, and the
\* store is the first one's.
C11_Witness ==
    /\ op.name = "new" /\ pc = "ready" /\ Readable = {1, 2}
    /\ words # <<>> /\ words # read_words(fs[DICTIONARIES[2]]).v

\* C12: Dictionary::new fails with the not-found error exactly when no path
\* exists, fails with the IO error carrying its source when the first existing
\* path cannot be read, and in both cases makes no engine.
C12_LoadErrors ==
    op.name = "new" =>
        /\ (err = Error_new("Unable to find a word database.")) <=> (Existing = {})
        /\ (Existing # {} /\ First(Existing) \notin Readable) =>
               (err.msg = "IO Error" /\ err.source)
        /\ (err # NoError) <=> (pc = "failed")
        /\ (err = NoError) <=> (pc = "ready")

\* C12 witness: the file opened and a line of it could not be read, after a
\* line that could.
C12_Witness ==
    /\ op.name = "new" /\ pc = "failed" /\ err = Error_from_io
    /\ fs[1].kind = "file" /\ Len(fs[1].lines) = 2 /\ fs[1].lines[1] = place

\* s holds its chars in ascending order, none twice
Ascending(s) == \A j, k \in 1..Len(s) : j < k => code_point(s[j]) < code_point(s[k])

\* C13: excluded_chars() and included_chars() return exactly the members of
\* the exclude set and of the include set, each once, in ascending order, and
\* change nothing of the engine.
C13_SortedAccessors ==
    [][/\ op'.name = "excluded_chars" =>
            /\ ret'.some /\ Range(ret'.v) = exclude
            /\ Len(ret'.v) = Cardinality(exclude) /\ Ascending(ret'.v)
            /\ UNCHANGED <<pc, err, words, include, exclude, positions, matches>>
       /\ op'.name = "included_chars" =>
            /\ ret'.some /\ Range(ret'.v) = include
            /\ Len(ret'.v) = Cardinality(include) /\ Ascending(ret'.v)
            /\ UNCHANGED <<pc, err, words, include, exclude, positions, matches>>]_vars

\* C13 witness: excluded_chars() returned '.', 'c', 'p' in that order with a
\* populated cache.
C13_Witness ==
    /\ op.name = "excluded_chars" /\ exclude = {"p", "c", WILDCARD}
    /\ ret = Some(<<WILDCARD, "c", "p">>) /\ matches.some

\* C14: the cache is None right after every remove_char (whether or not the
\* named set held the letter), every set_char_position(pos, '.') and
\* unset_char_position(pos) with pos in 1..5, and every reset.
C14_CacheInvalidated ==
    (\/ op.name \in {"remove_char", "reset"}
     \/ op.name = "unset_char_position" /\ op.pos \in 1..NPOS
     \/ op.name = "set_char_position" /\ op.ch = WILDCARD /\ op.pos \in 1..NPOS)
    => (pc = "ready" /\ matches = None)

\* C14 witness: remove_char of a letter the named set did not hold, made with
\* a populated cache.
C14_Witness ==
    /\ op.name = "remove_char" /\ op.st = "Excluded" /\ "Excluded" \notin op.was
    /\ ~op.fresh

\* C15: add_char, clear_set and set_char_position of a letter other than '.'
\* leave the cache as it was, None or Some of the same sequence.
C15_CacheKept ==
    [][(\/ op'.name \in {"add_char", "clear_set"}
        \/ op'.name = "set_char_position" /\ op'.ch # WILDCARD)
       => matches' = matches]_vars

\* C15 witness: clear_set was called with a populated cache that held words,
\* and the cache is still there.
C15_Witness ==
    /\ op.name = "clear_set" /\ ~op.fresh
    /\ matches.some /\ matches.v # <<>>

\* C16: called with the cache Some(s), matches() returns the words of s, in
\* order, that satisfy the current constraints (no excluded letter, every
\* included letter, the fixed letter at every fixed position), and stores
\* that sequence as the new cache.
C16_RefiltersCache ==
    [][(op'.name = "matches" /\ matches.some)
       => /\ pc' = "ready"
          /\ ret' = Some(SpecFilter(matches.v, exclude, include, positions))
          /\ matches' = ret']_vars

\* C16 with the constraints read as the engine's own closure reads them
C16_RefiltersCacheByClosure ==
    [][(op'.name = "matches" /\ matches.some)
       => /\ pc' = "ready"
          /\ ret' = Some(SelectSeq(matches.v,
                       LAMBDA s : filter_closure(s, exclude, include, positions) = "keep"))
          /\ matches' = ret']_vars

\* the words of the store that satisfy the spec's three conditions
ValidSet == Range(SpecFilter(words, exclude, include, positions))

C18_WritesTheSlot ==
    [][/\ (op'.name = "set_char_position" /\ op'.pos \in 1..NPOS) =>
            /\ pc' = "ready"
            /\ positions'[op'.pos] = op'.ch
            /\ \A i \in 1..NPOS : i # op'.pos => positions'[i] = positions[i]
       /\ op'.name = "unset_char_position" =>
            /\ set_char_position_body(op'.pos, WILDCARD)
            /\ op'.pos \in 1..NPOS =>
                  (positions' = [positions EXCEPT ![op'.pos] = WILDCARD]
                   /\ matches' = None)
            /\ UNCHANGED words]_vars

\* C18 witness: slot 4 held 'p' and now holds 'c', and slot 1 still holds 'p'.
C18_Witness ==
    /\ op.name = "set_char_position" /\ op.pos = 4 /\ op.ch = "c" /\ op.old = "p"
    /\ positions[4] = "c" /\ positions[1] = "p"

\* C19: set_char_position(pos, '.') and unset_char_position(pos) with pos in
\* 1..5 drop the cache and write the slot and leave the exclude set and the
\* include set as they were, whatever they hold.
C19_WildcardLeavesSets ==
    [][((op'.name = "unset_char_position"
           \/ (op'.name = "set_char_position" /\ op'.ch = WILDCARD))
        /\ op'.pos \in 1..NPOS)
       => /\ matches' = None
          /\ positions' = [positions EXCEPT ![op'.pos] = WILDCARD]
          /\ UNCHANGED <<include, exclude>>]_vars

\* C20: a populated cache is a subsequence of the word store (its words, in
\* its order, none more often than the store holds it), and once the engine is
\* made no call changes the word store.
C20_CacheWithinStore ==
    [][/\ matches'.some => IsSubseq(matches'.v, words')
       /\ pc # "start" => words' = words]_vars

\* C20 witness: the cache holds two or more different words and fewer than the
\* store.
C20_Witness ==
    /\ matches.some /\ Len(matches.v) >= 2 /\ Len(matches.v) < Len(words)
    /\ matches.v[1] # matches.v[2]

\* C21: every matches() call returns Some: after it the cache is Some of the
\* returned sequence, and the exclude set, the include set and the positions
\* are as they were before it.
C21_MatchesReturnsSome ==
    [][op'.name = "matches"
       => /\ pc' = "ready"
          /\ ret'.some /\ matches' = ret'
          /\ UNCHANGED <<exclude, include, positions>>]_vars

\* C21 for the calls that return: a matches() call that does not panic returns
\* Some, the cache is Some of the same sequence, and every call, panicking or
\* not, leaves both sets and the positions as they were.
C21_ReturnedIsSome ==
    [][op'.name = "matches"
       => /\ pc' = "ready" => (ret'.some /\ matches' = ret')
          /\ UNCHANGED <<exclude, include, positions>>]_vars

====
